---- MODULE Spec2Model ----
(***************************************************************************)
(* Model of scripts/create_users_and_signup.py: a sequential client that,  *)
(* for each index 1..count, registers a synthetic user (falling back to    *)
(* login when the account already exists), joins a game with the token it  *)
(* obtained, and tallies the outcome.                                      *)
(*                                                                         *)
(* Every requests.post call is two steps: the request is put on the wire   *)
(* (the client blocks), the remote API answers or the transport fails      *)
(* (requests_post), and the client resumes in the code after the call.     *)
(***************************************************************************)
EXTENDS Integers, Sequences, FiniteSets

VARIABLES
    count,               \* args.count
    backend,             \* which remote API the run talks to
    server,              \* state of the remote API (accounts, sessions, participation)
    run,                 \* 1 or 2: which invocation of the tool is executing
    first,               \* summary of the first invocation, once a second one started
    pc,                  \* position of the single thread
    i,                   \* loop variable of main
    token,               \* main's local `token`
    successful_signups,
    failed_signups,
    exit_status,         \* value returned by main (NoExit while running)
    inflight,            \* requests sent whose requests.post has not returned yet
    reply,               \* what the pending requests.post is about to return
    sent,                \* history: every request sent in this run, in order
    cur,                 \* history: the responses received for the current index
    outcome              \* history: how each index was tallied

vars == <<count, backend, server, run, first, pc, i, token, successful_signups,
          failed_signups, exit_status, inflight, reply, sent, cur, outcome>>

\* ------------------------------------------------------------------ bounds
MaxCount == 3

\* ------------------------------------------------------------------ values
None == "<None>"
NoExit == "running"
Tokens == {"", "tokA", "tokB"}
NonEmptyTokens == Tokens \ {""}
Password == "TestPassword123!"

\* Variant: `if token is not None`, which lets an empty token through.
TruthyNotNone(t) == t # None

\* Python truthiness of main's `token` (None and "" are falsy).
Truthy(t) == t # None /\ t # ""

RECURSIVE Digits(_)
Digits(n) == IF n < 10 THEN <<n>> ELSE Digits(n \div 10) \o <<n % 10>>

RECURSIVE ZeroPad(_, _)
ZeroPad(ds, width) == IF Len(ds) >= width THEN ds ELSE ZeroPad(<<0>> \o ds, width)

\* f"{index:03d}"
Fmt03d(index) == ZeroPad(Digits(index), 3)

\* f"testuser{index:03d}@volley.test"
Email(index) == [local |-> "testuser", number |-> Fmt03d(index), domain |-> "volley.test"]

\* ------------------------------------------------------------------ requests
RegisterRequest(index) ==
    [kind |-> "register", index |-> index, email |-> Email(index),
     password |-> Password, token |-> None]

\* Variant: the login fallback sends a password other than the registered one.
LoginRequestOtherPassword(email, password, index) ==
    [kind |-> "login", index |-> index, email |-> email,
     password |-> "TestPassword123", token |-> None]

LoginRequest(email, password, index) ==
    [kind |-> "login", index |-> index, email |-> email,
     password |-> password, token |-> None]

NoEmail == [local |-> "", number |-> <<>>, domain |-> ""]

JoinRequest(tok, user_index) ==
    [kind |-> "join", index |-> user_index, email |-> NoEmail,
     password |-> None, token |-> tok]

\* What the history keeps of a request (the bearer token is kept in cur).
LogEntry(q) == [kind |-> q.kind, index |-> q.index, email |-> q.email, password |-> q.password]

\* ------------------------------------------------------------------ responses
\* kind "http": a response object; status is response.status_code, marker is
\* `"already exists" in response.text`, json is whether response.json() yields
\* an object ("object") or the body is not one ("invalid": json() or .get
\* raises), token is response.json().get("token").
\* kind "exception": requests.post raised.
Http(status, marker, json, tok) ==
    [kind |-> "http", status |-> status, marker |-> marker, json |-> json, token |-> tok]
TransportError ==
    [kind |-> "exception", status |-> 0, marker |-> FALSE, json |-> "invalid", token |-> None]
NoResp ==
    [kind |-> "none", status |-> 0, marker |-> FALSE, json |-> "invalid", token |-> None]

Bodies == {[json |-> "invalid", token |-> None]}
            \cup {[json |-> "object", token |-> t] : t \in Tokens \cup {None}}

RegisterResponses ==
    {Http(s, m, b.json, b.token) : s \in {200, 201, 204, 400, 500}, m \in BOOLEAN, b \in Bodies}
        \cup {TransportError}
LoginResponses ==
    {Http(s, FALSE, b.json, b.token) : s \in {200, 201, 401}, b \in Bodies}
        \cup {TransportError}
JoinResponses ==
    {Http(s, FALSE, j, None) : s \in {200, 201, 500}, j \in {"invalid", "object"}}
        \cup {TransportError}

\* The responses the remote API contract calls success.
RegisterSuccessResponses ==
    {Http(s, FALSE, "object", t) : s \in {200, 201}, t \in NonEmptyTokens}
JoinSuccessResponses == {Http(200, FALSE, "object", None)}

\* ------------------------------------------------------------------ remote API
\* The remote API is not part of the script.  Four environments are modelled:
\*   "arbitrary"   any response, or a transport failure, to any request;
\*   "register_ok" registration always succeeds, login and join are arbitrary;
\*   "all_ok"      registration and join always succeed;
\*   "persistent"  accounts persist, join is idempotent (PersistentAnswers).
Account(email, password) == [email |-> email, password |-> password]

Exists(email) == \E a \in server.accounts : a.email = email

Decided(email) == \E p \in server.participation : p.email = email

Decision(email) == (CHOOSE p \in server.participation : p.email = email).accepted

JoinAnswer(accepted) ==
    IF accepted THEN Http(200, FALSE, "object", None) ELSE Http(500, FALSE, "object", None)

PersistentRegister(q) ==
    IF Exists(q.email)
    THEN {[resp |-> Http(400, TRUE, "object", None), server |-> server]}
    ELSE {[resp |-> Http(201, FALSE, "object", t),
           server |-> [server EXCEPT !.accounts = @ \cup {Account(q.email, q.password)},
                                     !.sessions[t] = q.email]] : t \in NonEmptyTokens}

PersistentLogin(q) ==
    IF Account(q.email, q.password) \in server.accounts
    THEN {[resp |-> Http(200, FALSE, "object", t),
           server |-> [server EXCEPT !.sessions[t] = q.email]] : t \in NonEmptyTokens}
    ELSE {[resp |-> Http(401, FALSE, "object", None), server |-> server]}

PersistentJoin(q) ==
    LET user == IF q.token \in NonEmptyTokens THEN server.sessions[q.token] ELSE NoEmail IN
    IF user = NoEmail
    THEN {[resp |-> Http(401, FALSE, "object", None), server |-> server]}
    ELSE IF Decided(user)
    THEN {[resp |-> JoinAnswer(Decision(user)), server |-> server]}
    ELSE {[resp |-> JoinAnswer(d),
           server |-> [server EXCEPT !.participation =
                                        @ \cup {[email |-> user, accepted |-> d]}]]
            : d \in BOOLEAN}

PersistentAnswers(q) ==
    CASE q.kind = "register" -> PersistentRegister(q)
      [] q.kind = "login"    -> PersistentLogin(q)
      [] q.kind = "join"     -> PersistentJoin(q)

Stateless(resps) == {[resp |-> r, server |-> server] : r \in resps}

Answers(q) ==
    CASE backend = "persistent" -> PersistentAnswers(q)
      [] q.kind = "register" ->
            Stateless(IF backend = "arbitrary" THEN RegisterResponses
                      ELSE RegisterSuccessResponses)
      [] q.kind = "login" -> Stateless(LoginResponses)
      [] q.kind = "join" ->
            Stateless(IF backend = "all_ok" THEN JoinSuccessResponses ELSE JoinResponses)

\* requests.post(...): the blocked call gets its result, a response or an exception.
requests_post ==
    /\ reply = NoResp
    /\ \E q \in inflight : \E a \in Answers(q) :
          /\ reply' = a.resp
          /\ server' = a.server
    /\ UNCHANGED <<count, backend, run, first, pc, i, token, successful_signups,
                   failed_signups, exit_status, inflight, sent, cur, outcome>>

\* ------------------------------------------------------------------ client
\* Variant: only 200 counts as a created account.
RegisterCreatedOnly200(r) == r.kind = "http" /\ r.status = 200

\* line 64: response.status_code in [200, 201]
RegisterCreated(r) == r.kind = "http" /\ r.status \in {200, 201}

\* Variant: the conflict is recognized by the substring alone, whatever the status.
AlreadyExistsAnyStatus(r) == r.kind = "http" /\ r.marker

\* Variant: the conflict is expected as 409 instead of 400.
AlreadyExists409(r) == r.kind = "http" /\ r.status = 409 /\ r.marker

\* line 68: response.status_code == 400 and "already exists" in response.text
AlreadyExists(r) == r.kind = "http" /\ r.status = 400 /\ r.marker

\* line 30: response.status_code == 200
LoginOk(r) == r.kind = "http" /\ r.status = 200

\* response.json().get("token") inside the try block: a body that is not a JSON
\* object raises, and the except branch returns None.
JsonToken(r) == IF r.json = "object" THEN r.token ELSE None

\* What login_user returns for the response r (lines 27-39).
login_user_result(r) == IF LoginOk(r) THEN JsonToken(r) ELSE None

\* What create_user returns for the response r when it does not fall back to
\* login (lines 61-67, 72-77).
create_user_result(r) == IF RegisterCreated(r) THEN JsonToken(r) ELSE None

\* Variant: join_game accepts 201 as well as 200.
join_game_result_200_201(r) == r.kind = "http" /\ r.status \in {200, 201} /\ r.json = "object"

\* What join_game returns for the response r (lines 90-103).
join_game_result(r) == r.kind = "http" /\ r.status = 200 /\ r.json = "object"

\* requests.post issues the request and blocks until it completes.
Post(net, q) == net \cup {q}
\* Variant: the post does not block, the request stays outstanding.
NotAwaited(net, q) == net
Completed(net, q) == net \ {q}

\* for i in range(1, args.count + 1)
FirstIndex == 1
NextIndex(k) == k + 1
InRange(k) == k >= 1 /\ k <= count

\* Variant: main always returns 0.
ExitStatusAlwaysZero(failed) == 0

\* return 0 if failed_signups == 0 else 1
ExitStatus(failed) == IF failed = 0 THEN 0 ELSE 1

NoCur == [index |-> 0, reg |-> NoResp, login |-> NoResp, join |-> NoResp, joinToken |-> None]

\* main line 133-135 and create_user lines 42-62: the next iteration starts and
\* create_user(i) posts the registration.
create_user_call ==
    /\ pc = "loop"
    /\ InRange(i)
    /\ inflight' = Post(inflight, RegisterRequest(i))
    /\ sent' = Append(sent, LogEntry(RegisterRequest(i)))
    /\ cur' = [NoCur EXCEPT !.index = i]
    /\ pc' = "register"
    /\ UNCHANGED <<count, backend, server, run, first, i, token, successful_signups,
                   failed_signups, exit_status, reply, outcome>>

\* create_user lines 62-77: the registration returned.  On the recognized
\* conflict login_user is called (lines 13-28) and posts the login.
create_user_response ==
    /\ pc = "register"
    /\ reply # NoResp
    /\ reply' = NoResp
    /\ cur' = [cur EXCEPT !.reg = reply]
    /\ IF AlreadyExists(reply) /\ ~RegisterCreated(reply)
       THEN /\ inflight' = Post(Completed(inflight, RegisterRequest(i)),
                                LoginRequest(Email(i), Password, i))
            /\ sent' = Append(sent, LogEntry(LoginRequest(Email(i), Password, i)))
            /\ pc' = "login"
            /\ UNCHANGED token
       ELSE /\ inflight' = Completed(inflight, RegisterRequest(i))
            /\ token' = create_user_result(reply)
            /\ pc' = "created"
            /\ UNCHANGED sent
    /\ UNCHANGED <<count, backend, server, run, first, i, successful_signups,
                   failed_signups, exit_status, outcome>>

\* login_user lines 28-39, returned through create_user line 71.
login_user_response ==
    /\ pc = "login"
    /\ reply # NoResp
    /\ reply' = NoResp
    /\ cur' = [cur EXCEPT !.login = reply]
    /\ inflight' = Completed(inflight, LoginRequest(Email(i), Password, i))
    /\ token' = login_user_result(reply)
    /\ pc' = "created"
    /\ UNCHANGED <<count, backend, server, run, first, i, successful_signups,
                   failed_signups, exit_status, sent, outcome>>

\* main lines 137-139 and join_game lines 80-91: with a truthy token the join is posted.
join_game_call ==
    /\ pc = "created"
    /\ Truthy(token)
    /\ inflight' = Post(inflight, JoinRequest(token, i))
    /\ sent' = Append(sent, LogEntry(JoinRequest(token, i)))
    /\ cur' = [cur EXCEPT !.joinToken = token]
    /\ pc' = "join"
    /\ UNCHANGED <<count, backend, server, run, first, i, token, successful_signups,
                   failed_signups, exit_status, reply, outcome>>

\* Variant: an index without a token is skipped without being counted.
no_token_uncounted ==
    /\ pc = "created"
    /\ ~Truthy(token)
    /\ outcome' = [outcome EXCEPT ![i] = "failed"]
    /\ i' = NextIndex(i)
    /\ pc' = "loop"
    /\ UNCHANGED <<count, backend, server, run, first, token, successful_signups,
                   failed_signups, exit_status, inflight, reply, sent, cur>>

\* Variant: an index without a token is tried again.
no_token_retry ==
    /\ pc = "created"
    /\ ~Truthy(token)
    /\ pc' = "loop"
    /\ UNCHANGED <<count, backend, server, run, first, i, token, successful_signups,
                   failed_signups, exit_status, inflight, reply, sent, cur, outcome>>

\* main lines 137, 143-144: no token, the index failed.
no_token ==
    /\ pc = "created"
    /\ ~Truthy(token)
    /\ failed_signups' = failed_signups + 1
    /\ outcome' = [outcome EXCEPT ![i] = "failed"]
    /\ i' = NextIndex(i)
    /\ pc' = "loop"
    /\ UNCHANGED <<count, backend, server, run, first, token, successful_signups,
                   exit_status, inflight, reply, sent, cur>>

\* join_game lines 91-103 and main lines 139-142: the join returned and is tallied.
join_game_response ==
    /\ pc = "join"
    /\ reply # NoResp
    /\ reply' = NoResp
    /\ cur' = [cur EXCEPT !.join = reply]
    /\ inflight' = Completed(inflight, JoinRequest(token, i))
    /\ IF join_game_result(reply)
       THEN /\ successful_signups' = successful_signups + 1
            /\ outcome' = [outcome EXCEPT ![i] = "success"]
            /\ UNCHANGED failed_signups
       ELSE /\ failed_signups' = failed_signups + 1
            /\ outcome' = [outcome EXCEPT ![i] = "failed"]
            /\ UNCHANGED successful_signups
    /\ i' = NextIndex(i)
    /\ pc' = "loop"
    /\ UNCHANGED <<count, backend, server, run, first, token, exit_status, sent>>

\* main lines 150-157: the range is exhausted, the summary is printed and main returns.
main_return ==
    /\ pc = "loop"
    /\ ~InRange(i)
    /\ exit_status' = ExitStatus(failed_signups)
    /\ pc' = "done"
    /\ UNCHANGED <<count, backend, server, run, first, i, token, successful_signups,
                   failed_signups, inflight, reply, sent, cur, outcome>>

\* A second invocation of the tool with the same arguments against the same
\* remote API: main starts again from lines 130-131.
NoFirst == [successful |-> -1, failed |-> -1, exit |-> NoExit]

rerun ==
    /\ pc = "done"
    /\ run = 1
    /\ run' = 2
    /\ first' = [successful |-> successful_signups, failed |-> failed_signups,
                 exit |-> exit_status]
    /\ successful_signups' = 0
    /\ failed_signups' = 0
    /\ i' = FirstIndex
    /\ token' = None
    /\ exit_status' = NoExit
    /\ sent' = <<>>
    /\ cur' = NoCur
    /\ outcome' = [k \in 1..MaxCount |-> "pending"]
    /\ pc' = "loop"
    /\ UNCHANGED <<count, backend, server, inflight, reply>>

\* ------------------------------------------------------------------ specifications
EmptyServer ==
    [accounts |-> {}, sessions |-> [t \in NonEmptyTokens |-> NoEmail], participation |-> {}]

InitClient ==
    /\ count \in 0..MaxCount
    /\ run = 1
    /\ first = NoFirst
    /\ pc = "loop"
    /\ i = FirstIndex
    /\ token = None
    /\ successful_signups = 0
    /\ failed_signups = 0
    /\ exit_status = NoExit
    /\ inflight = {}
    /\ reply = NoResp
    /\ sent = <<>>
    /\ cur = NoCur
    /\ outcome = [k \in 1..MaxCount |-> "pending"]

Init ==
    /\ InitClient
    /\ backend \in {"arbitrary", "register_ok", "all_ok"}
    /\ server = EmptyServer

Next ==
    \/ create_user_call
    \/ requests_post
    \/ create_user_response
    \/ login_user_response
    \/ join_game_call
    \/ no_token
    \/ join_game_response
    \/ main_return

Spec == Init /\ [][Next]_vars

\* Two invocations against the persistent remote API.  Accounts of an earlier,
\* interrupted invocation may already exist, some with another password.
StoredPasswords == {Password, "changed"}

InitRerun ==
    /\ InitClient
    /\ backend = "persistent"
    /\ \E known \in SUBSET (1..MaxCount) : \E pw \in [known -> StoredPasswords] :
          server = [EmptyServer EXCEPT !.accounts = {Account(Email(k), pw[k]) : k \in known}]

NextRerun == Next \/ rerun

SpecRerun == InitRerun /\ [][NextRerun]_vars

\* ------------------------------------------------------------------ properties
\* Vocabulary of the properties, stated on the raw responses and the request log.
Processing == pc \in {"register", "login", "created", "join"}
Finished == pc = "done"

IsConflictResponse(r) == r.kind = "http" /\ r.status = 400 /\ r.marker
IsNon2xx(r) == r.kind = "http" /\ r.status \notin 200..299
IsTransportFailure(r) == r.kind = "exception"
CarriesToken(r) == r.kind = "http" /\ r.json = "object" /\ r.token \in NonEmptyTokens
LacksToken(r) == r.kind = "http" /\ r.json = "object" /\ r.token \in {None, ""}
RegisterSucceeded(r) == r.status \in {200, 201} /\ CarriesToken(r)
LoginSucceeded(r) == r.status = 200 /\ CarriesToken(r)
JoinSucceeded(r) == r.kind = "http" /\ r.status = 200 /\ r.json = "object"

Requests(kind, index) == {k \in 1..Len(sent) : sent[k].kind = kind /\ sent[k].index = index}
Tallied(index) == outcome[index] # "pending"
\* The step that tallies the current index.
TallyStep == i' # i /\ pc' = "loop"
CountedFailed == failed_signups' = failed_signups + 1 /\ successful_signups' = successful_signups
CountedSuccess == successful_signups' = successful_signups + 1 /\ failed_signups' = failed_signups

\* C1: when main returns, the exit status is 0 exactly when every index of
\* 1..count was tallied as a successful signup (failed_signups = 0), and it is 1
\* as soon as one index was tallied as failed.
C1_ExitStatus ==
    Finished =>
        /\ exit_status \in {0, 1}
        /\ (exit_status = 0) <=> (\A k \in 1..count : outcome[k] = "success")
        /\ (exit_status = 0) <=> (failed_signups = 0)
        /\ (\E k \in 1..count : outcome[k] = "failed") => exit_status = 1

C1_Witness ==
    /\ Finished /\ count >= 2 /\ exit_status = 1
    /\ \E k \in 1..count : outcome[k] = "success"

C1_WitnessZero == Finished /\ count >= 2 /\ exit_status = 0

\* C2 as stated: with a remote API whose registration always succeeds, a run with
\* count = K ends with K successful signups, no failure and exit status 0.
C2_Original ==
    (Finished /\ backend \in {"register_ok", "all_ok"}) =>
        (successful_signups = count /\ failed_signups = 0 /\ exit_status = 0)

\* C2 amended: with a remote API whose registration always succeeds (200/201 with
\* a non-empty token) and whose join always succeeds (200 with a JSON object), a
\* run with count = K ends with K successful signups, no failure and exit status 0.
C2_AllSucceed ==
    (Finished /\ backend = "all_ok") =>
        (successful_signups = count /\ failed_signups = 0 /\ exit_status = 0)

C2_Witness ==
    /\ Finished /\ backend = "all_ok" /\ count = MaxCount
    /\ successful_signups = MaxCount
    /\ cur.reg.status = 201

\* C3: when the registration of an index is answered by the recognized conflict
\* (400 with "already exists"), a login is sent with the e-mail and password of
\* that registration; and when that login and the following join succeed, the
\* index is tallied as a successful signup.
C3_LoginSent ==
    IsConflictResponse(cur.reg) =>
        \E l \in Requests("login", cur.index) : \E g \in Requests("register", cur.index) :
            /\ g < l
            /\ sent[l].email = sent[g].email
            /\ sent[l].password = sent[g].password

C3_Tally ==
    (/\ TallyStep
     /\ IsConflictResponse(cur'.reg)
     /\ LoginSucceeded(cur'.login)
     /\ JoinSucceeded(cur'.join)) => (CountedSuccess /\ outcome'[i] = "success")

\* C3: the login fallback is sent with the registration's credentials at every
\* state, and every tally after conflict, successful login and successful join
\* counts a success.
C3_Fallback == [](C3_LoginSent) /\ [][C3_Tally]_vars

C3_Witness ==
    /\ IsConflictResponse(cur.reg) /\ LoginSucceeded(cur.login) /\ JoinSucceeded(cur.join)
    /\ outcome[cur.index] = "success" /\ cur.index = 2

\* C4: when the registration of an index is answered by a non-2xx status that is
\* not the recognized conflict, neither a login nor a join is sent for that index
\* and the index is tallied as failed.
IsRejection(r) == IsNon2xx(r) /\ ~IsConflictResponse(r)

C4_NoFurtherRequest ==
    IsRejection(cur.reg) =>
        /\ Requests("login", cur.index) = {}
        /\ Requests("join", cur.index) = {}
        /\ Tallied(cur.index) => outcome[cur.index] = "failed"

C4_Tally == (TallyStep /\ IsRejection(cur.reg)) => (CountedFailed /\ outcome'[i] = "failed")

\* C4: a rejected registration is never followed by a login or join for its
\* index, and its tally counts a failure.
C4_Rejected == [](C4_NoFurtherRequest) /\ [][C4_Tally]_vars

C4_Witness ==
    /\ cur.reg.status = 500 /\ cur.reg.marker /\ Tallied(cur.index) /\ cur.index = 2
    /\ failed_signups = 1

C4_WitnessNoMarker ==
    cur.reg.kind = "http" /\ cur.reg.status = 400 /\ ~cur.reg.marker /\ Tallied(cur.index)

\* C5: when a token was obtained for an index but its join is answered by a
\* non-200 status or fails at transport level, the index is tallied as failed
\* (failed_signups + 1, successful_signups unchanged), the failure count never
\* decreases afterwards, and main returns 1.
IsJoinFailure(r) == IsTransportFailure(r) \/ (r.kind = "http" /\ r.status # 200)

C5_Tally ==
    (pc = "join" /\ TallyStep /\ IsJoinFailure(cur'.join)) =>
        (Truthy(token) /\ CountedFailed /\ outcome'[i] = "failed")

C5_Kept == failed_signups' >= failed_signups

C5_Exit == (Finished /\ failed_signups > 0) => exit_status = 1

\* C5: every failed join is tallied as one failure, failures are never
\* uncounted, and a run with a failure returns 1.
C5_JoinFailure == [][C5_Tally /\ C5_Kept]_vars /\ [](C5_Exit)

C5_Witness ==
    /\ Finished /\ exit_status = 1 /\ failed_signups = 1 /\ count >= 2
    /\ RegisterSucceeded(cur.reg) /\ cur.join.kind = "http" /\ cur.join.status = 201

C5_WitnessTransport ==
    Finished /\ LoginSucceeded(cur.login) /\ IsTransportFailure(cur.join) /\ exit_status = 1

\* C6: in a second invocation with the same count against the persistent remote
\* API, every registration is answered by the recognized conflict and followed by
\* a login, and the second invocation ends with the successful-signup count of
\* the first.
C6_Rerun ==
    run = 2 =>
        /\ cur.reg # NoResp =>
              (IsConflictResponse(cur.reg) /\ Requests("login", cur.index) # {})
        /\ Finished => successful_signups = first.successful

C6_Witness ==
    /\ run = 2 /\ Finished /\ count = MaxCount
    /\ successful_signups >= 1 /\ failed_signups >= 1
    /\ first.successful = successful_signups

\* C7: the run is never aborted: the two counters always add up to the number of
\* indices processed so far, every index changes exactly one of them by exactly
\* 1, nothing else changes them, and main returns only after index count.
C7_Sum ==
    /\ successful_signups + failed_signups = i - 1
    /\ \A k \in 1..MaxCount : Tallied(k) <=> k < i
    /\ Processing => i \in 1..count
    /\ Finished => (i = count + 1 /\ successful_signups + failed_signups = count)

C7_Step ==
    IF i' # i
    THEN i' = i + 1 /\ (CountedSuccess \/ CountedFailed)
    ELSE successful_signups' = successful_signups /\ failed_signups' = failed_signups

\* C7: the counters sum to the number of processed indices at every state, and
\* every step moves exactly one counter by 1 or none at all.
C7_NoAbort == [](C7_Sum) /\ [][C7_Step]_vars

C7_Witness ==
    /\ Finished /\ count = MaxCount
    /\ outcome[1] = "failed" /\ IsTransportFailure(cur.join) /\ successful_signups = 1

\* C8: requests are sent one at a time and in order: at most one request is
\* outstanding, an outstanding request is the last one sent, and the log of
\* requests is ordered by index and, within an index, register, login, join.
Rank(kind) == CASE kind = "register" -> 1 [] kind = "login" -> 2 [] kind = "join" -> 3

Precedes(a, b) == a.index < b.index \/ (a.index = b.index /\ Rank(a.kind) < Rank(b.kind))

C8_Sequential ==
    /\ Cardinality(inflight) <= 1
    /\ \A q \in inflight : sent # <<>> /\ LogEntry(q) = sent[Len(sent)]
    /\ \A a, b \in 1..Len(sent) : a < b => Precedes(sent[a], sent[b])
    /\ \A a \in 1..Len(sent) : Requests("register", sent[a].index) # {}
    /\ (sent # <<>>) => sent[1] = LogEntry(RegisterRequest(1))

C8_Witness ==
    /\ Len(sent) = 3 * MaxCount
    /\ Cardinality(inflight) = 1

\* C9: nothing is retried: an index whose processing has started has exactly one
\* register request, at most one login request, sent only after the recognized
\* conflict, and at most one join request.
C9_NoRetry ==
    /\ \A k \in 1..MaxCount :
          /\ Cardinality(Requests("register", k)) = (IF k < i \/ (k = i /\ Processing) THEN 1 ELSE 0)
          /\ Cardinality(Requests("login", k)) <= 1
          /\ Cardinality(Requests("join", k)) <= 1
    /\ Len(sent) <= 3 * count
    /\ (cur.index # 0 /\ Requests("login", cur.index) # {}) => IsConflictResponse(cur.reg)
    /\ (cur.index # 0 /\ ~IsConflictResponse(cur.reg)) => Requests("login", cur.index) = {}

C9_Witness ==
    /\ Finished /\ count = MaxCount
    /\ IsTransportFailure(cur.reg)
    /\ Requests("login", 1) # {} /\ outcome[1] = "failed" /\ Requests("join", 1) = {}

\* C10: a join is sent for an index only with the non-empty token that index's
\* own register (or, after the conflict, login) response carried; when a 200/201
\* register or a 200 login response carries no token or an empty one, no join is
\* sent for the index and it is tallied as failed.
OwnToken ==
    IF IsConflictResponse(cur.reg) THEN cur.login
    ELSE cur.reg

\* C10, precondition of the second half: a success response without a usable token.
C10_TokenMissing ==
    \/ (cur.reg.status \in {200, 201} /\ LacksToken(cur.reg))
    \/ (IsConflictResponse(cur.reg) /\ cur.login.status = 200 /\ LacksToken(cur.login))

\* C10: the join carries the non-empty token of the index's own register or
\* login response; without such a token no join is sent and the index fails.
C10_JoinToken ==
    /\ \A q \in inflight : q.kind = "join" =>
          (q.index = cur.index /\ q.token = cur.joinToken)
    /\ (cur.index # 0 /\ Requests("join", cur.index) # {}) =>
          /\ cur.joinToken \in NonEmptyTokens
          /\ CarriesToken(OwnToken)
          /\ cur.joinToken = OwnToken.token
          /\ IF IsConflictResponse(cur.reg) THEN cur.login.status = 200
             ELSE cur.reg.status \in {200, 201}
    /\ C10_TokenMissing =>
          /\ Requests("join", cur.index) = {}
          /\ Tallied(cur.index) => outcome[cur.index] = "failed"

C10_Witness ==
    /\ cur.index = 2 /\ Requests("join", 2) # {} /\ Requests("join", 1) # {}
    /\ cur.joinToken = "tokB" /\ IsConflictResponse(cur.reg)
    /\ outcome[1] = "success"

C10_WitnessEmpty ==
    /\ cur.reg.status = 201 /\ cur.reg.json = "object" /\ cur.reg.token = ""
    /\ Tallied(cur.index)

====
